---- MODULE Spec2Model ----
(***************************************************************************)
(* Model of whats-for-lunch: the building registry, the menu extractor,    *)
(* the markdown renderer and the request handler that composes them.       *)
(*                                                                         *)
(* Text is modelled by TLA+ strings; a character is a string of length 1.  *)
(* A fetched page is modelled by the document tree Html::parse_document    *)
(* hands to scrape_lunch: element nodes (name, class list, children) and   *)
(* text nodes.                                                             *)
(***************************************************************************)
EXTENDS Integers, Sequences, FiniteSets, TLC

VARIABLES req, sent, arg, ret, step

vars == <<req, sent, arg, ret, step>>

-----------------------------------------------------------------------------
(* Strings: the std operations the code uses.                              *)

CharAt(s, i) == SubSeq(s, i, i)

UpperCase == "ABCDEFGHIJKLMNOPQRSTUVWXYZ"
LowerCase == "abcdefghijklmnopqrstuvwxyz"

is_ascii_uppercase(c) == \E i \in 1..Len(UpperCase) : CharAt(UpperCase, i) = c

\* char::to_ascii_lowercase: 'A'..'Z' map to 'a'..'z', every other char to itself
to_ascii_lowercase(c) ==
    IF is_ascii_uppercase(c)
    THEN CharAt(LowerCase, CHOOSE i \in 1..Len(UpperCase) : CharAt(UpperCase, i) = c)
    ELSE c

\* str::eq_ignore_ascii_case
eq_ignore_ascii_case(a, b) ==
    /\ Len(a) = Len(b)
    /\ \A i \in 1..Len(a) :
          to_ascii_lowercase(CharAt(a, i)) = to_ascii_lowercase(CharAt(b, i))

\* char::is_whitespace, restricted to the characters the model's pages use
is_whitespace(c) == c \in {" ", "\n", "\t", "\r", "\f"}

RECURSIVE trim_start(_)
trim_start(s) ==
    IF s = "" THEN ""
    ELSE IF is_whitespace(CharAt(s, 1)) THEN trim_start(SubSeq(s, 2, Len(s)))
    ELSE s

RECURSIVE trim_end(_)
trim_end(s) ==
    IF s = "" THEN ""
    ELSE IF is_whitespace(CharAt(s, Len(s))) THEN trim_end(SubSeq(s, 1, Len(s) - 1))
    ELSE s

\* str::trim
trim(s) == trim_end(trim_start(s))

\* [&str]::join
RECURSIVE join(_, _)
join(pieces, sep) ==
    IF Len(pieces) = 0 THEN ""
    ELSE IF Len(pieces) = 1 THEN pieces[1]
    ELSE pieces[1] \o sep \o join(Tail(pieces), sep)

\* the case conversion of serde's rename_all / strum's serialize_all: a
\* separator before every upper-case letter but the first, all lower-cased
RECURSIVE rename_all(_, _, _)
rename_all(s, sep, first) ==
    IF s = "" THEN ""
    ELSE LET c == CharAt(s, 1)
         IN  (IF is_ascii_uppercase(c) /\ ~first THEN sep ELSE "")
             \o to_ascii_lowercase(c)
             \o rename_all(SubSeq(s, 2, Len(s)), sep, FALSE)

-----------------------------------------------------------------------------
(* Building registry.                                                      *)

\* enum Building, in declaration order
Building ==
    <<"Aastvej", "Multihuset", "Havremarken", "KIRKBI", "Midtown", "Kornmarken",
      "Oestergade">>

Buildings == { Building[i] : i \in 1..Len(Building) }

\* a plausible slip: the variants are matched exactly, without the
\* ascii_case_insensitive attribute
from_str_case_sensitive(s) ==
    IF s \in Buildings
    THEN [ok |-> TRUE, building |-> s]
    ELSE [ok |-> FALSE, building |-> "VariantNotFound"]

\* a plausible slip: an unknown identifier falls back to the first variant
from_str_defaulting(s) ==
    IF \E i \in 1..Len(Building) : eq_ignore_ascii_case(s, Building[i])
    THEN [ok |-> TRUE,
          building |->
              Building[CHOOSE i \in 1..Len(Building) :
                          /\ eq_ignore_ascii_case(s, Building[i])
                          /\ \A j \in 1..(i - 1) : ~eq_ignore_ascii_case(s, Building[j])]]
    ELSE [ok |-> TRUE, building |-> Building[1]]

\* Building::from_str as derived by EnumString with ascii_case_insensitive on
\* every variant: the first variant whose name equals s ignoring ASCII case
from_str(s) ==
    IF \E i \in 1..Len(Building) : eq_ignore_ascii_case(s, Building[i])
    THEN [ok |-> TRUE,
          building |->
              Building[CHOOSE i \in 1..Len(Building) :
                          /\ eq_ignore_ascii_case(s, Building[i])
                          /\ \A j \in 1..(i - 1) : ~eq_ignore_ascii_case(s, Building[j])]]
    ELSE [ok |-> FALSE, building |-> "VariantNotFound"]

\* the match of building_to_url
building_path(building) ==
    CASE building = "Aastvej" -> "aastvej"
      [] building = "Multihuset" -> "multihuset"
      [] building = "Havremarken" -> "havremarken"
      [] building = "KIRKBI" -> "kloeverblomsten-kirkbi"
      [] building = "Midtown" -> "midtown"
      [] building = "Kornmarken" -> "kornmarken"
      [] building = "Oestergade" -> "kantine-oestergade"

building_to_url(building) ==
    join(<<"https://lego.isscatering.dk", building_path(building)>>, "/")

\* Display of lunch.rs's Building: kebab-case, two variants with their own name
building_to_string(building) ==
    CASE building = "KIRKBI" -> "kloeverblomsten-kirkbi"
      [] building = "Oestergade" -> "kantine-oestergade"
      [] OTHER -> rename_all(building, "-", TRUE)

\* the format! of lunch.rs's get_lunch
lunch_rs_url(building) == "https://lego.isscatering.dk/" \o building_to_string(building)

-----------------------------------------------------------------------------
(* The parsed document (scraper::Html) and the selectors.                  *)

Text(t) == [kind |-> "text", name |-> "", class |-> {}, children |-> <<>>, text |-> t]
Elem(n, c, ch) == [kind |-> "elem", name |-> n, class |-> c, children |-> ch, text |-> ""]

IsElem(node) == node.kind = "elem"

\* the element siblings :nth-child counts: text nodes are skipped
element_children(node) == SelectSeq(node.children, IsElem)

\* the row and cell positions of the three selectors
VarmRetRow == 2
VegetarRow == 4
SalatRow == 6
CellChild == 2

\* Html::select with "div.menu-row:nth-child(k) > div:nth-child(2)": the
\* matching elements under el (el included), in document order.  idx is el's
\* position among its parent's element children, parent_matches says whether
\* the parent is a div of class menu-row that is the k-th child of its parent.
RECURSIVE select_from(_, _, _, _)
select_from(el, idx, parent_matches, k) ==
    LET here == IF parent_matches /\ el.name = "div" /\ idx = CellChild
                THEN <<el>> ELSE <<>>
        kids == element_children(el)
        me == el.name = "div" /\ "menu-row" \in el.class /\ idx = k
        RECURSIVE below(_)
        below(i) == IF i > Len(kids) THEN <<>>
                    ELSE select_from(kids[i], i, me, k) \o below(i + 1)
    IN  here \o below(1)

select(html, k) == select_from(html, 1, FALSE, k)

\* ElementRef::text: the descendant text nodes, in document order
RECURSIVE text(_)
text(node) ==
    IF node.kind = "text" THEN <<node.text>>
    ELSE LET RECURSIVE runs(_)
             runs(i) == IF i > Len(node.children) THEN <<>>
                        ELSE text(node.children[i]) \o runs(i + 1)
         IN  runs(1)

None == [some |-> FALSE, value |-> ""]
Some(v) == [some |-> TRUE, value |-> v]

\* Iterator::next
next(it) == IF Len(it) = 0 THEN None ELSE Some(it[1])

\* html.select(&selector).next().unwrap().text().next().unwrap(); an unwrap
\* of None panics, which is the result None here
select_text(html, k) ==
    LET el == next(select(html, k))
    IN  IF ~el.some THEN None ELSE next(text(el.value))

NoLunch == [varm_ret |-> "", vegetar |-> "", salat |-> ""]

Panicked == [outcome |-> "panicked", lunch |-> NoLunch]
Returned(l) == [outcome |-> "returned", lunch |-> l]

\* a plausible slip: the text is kept as found, untrimmed
scrape_lunch_untrimmed(html) ==
    LET varm_ret == select_text(html, VarmRetRow)
        vegetar == select_text(html, VegetarRow)
        salat == select_text(html, SalatRow)
    IN  IF ~varm_ret.some \/ ~vegetar.some \/ ~salat.some
        THEN Panicked
        ELSE Returned([varm_ret |-> varm_ret.value,
                       vegetar |-> vegetar.value,
                       salat |-> salat.value])

\* main.rs: fn scrape_lunch
scrape_lunch(html) ==
    LET varm_ret == select_text(html, VarmRetRow)
        vegetar == select_text(html, VegetarRow)
        salat == select_text(html, SalatRow)
    IN  IF ~varm_ret.some \/ ~vegetar.some \/ ~salat.some
        THEN Panicked
        ELSE Returned([varm_ret |-> trim(varm_ret.value),
                       vegetar |-> trim(vegetar.value),
                       salat |-> trim(salat.value)])

\* lunch.rs: fn scrape_lunch
lunch_rs_scrape_lunch(html) ==
    LET varm_ret == select_text(html, VarmRetRow)
        vegetar == select_text(html, VegetarRow)
        salat == select_text(html, SalatRow)
    IN  IF ~varm_ret.some \/ ~vegetar.some \/ ~salat.some
        THEN Panicked
        ELSE Returned([varm_ret |-> trim(varm_ret.value),
                       vegetar |-> trim(vegetar.value),
                       salat |-> trim(salat.value)])

\* a plausible slip: a newline after the last field
lunch_to_markdown_trailing_newline(lunch) ==
    join(<<"##### Varm ret\n  ", lunch.varm_ret, "\n",
           "##### Vegetar\n  ", lunch.vegetar, "\n",
           "##### Salat\n  ", lunch.salat, "\n">>, "")

\* main.rs: fn lunch_to_markdown
lunch_to_markdown(lunch) ==
    join(<<"##### Varm ret\n  ", lunch.varm_ret, "\n",
           "##### Vegetar\n  ", lunch.vegetar, "\n",
           "##### Salat\n  ", lunch.salat>>, "")

\* lunch.rs: fn lunch_to_markdown; the result is the string inside Markdown(..)
lunch_rs_lunch_to_markdown(lunch) ==
    join(<<"##### Varm ret\n  ", lunch.varm_ret, "\n",
           "##### Vegetar\n  ", lunch.vegetar, "\n",
           "##### Salat\n  ", lunch.salat>>, "")

-----------------------------------------------------------------------------
(* The pages the extractor is run on.  A page is described by the kinds of  *)
(* its rows; MakePage builds the document tree of a description.  Every     *)
(* text of a page is unique to its container, row and cell.                 *)

MaxRows == 7
MaxVariantRows == 2

Digit(i) == CharAt("0123456789", i + 1)

Label(c, i) == "label " \o Digit(c) \o "." \o Digit(i)
Dish(c, i) == "dish " \o Digit(c) \o "." \o Digit(i)
Extra(c, i) == "extra " \o Digit(c) \o "." \o Digit(i)
Price(c, i) == "price " \o Digit(c) \o "." \o Digit(i)

\* rows whose second cell is a div with text
TextKinds == {"plain", "tworuns", "wrapped", "indented"}
\* rows whose second cell is a div without any text node
NoTextKinds == {"notext"}
\* rows that have no matching second cell
NoCellKinds == {"heading", "onecell", "spancell"}

VariantKinds == (TextKinds \ {"plain"}) \cup NoTextKinds \cup NoCellKinds

NL == Text("\n")

LabelCell(c, i) == Elem("div", {"menu-label"}, <<Text(Label(c, i))>>)
PriceCell(c, i) == Elem("div", {"menu-price"}, <<Text(Price(c, i))>>)

\* the second cell of a row, by kind
DishCell(kind, c, i) ==
    CASE kind = "plain" ->
           Elem("div", {}, <<Text("\n    " \o Dish(c, i) \o "\n  ")>>)
      [] kind = "tworuns" ->
           Elem("div", {}, <<Text(" " \o Dish(c, i) \o "\t"), Elem("br", {}, <<>>),
                             Text(Extra(c, i))>>)
      [] kind = "wrapped" ->
           Elem("div", {}, <<Elem("p", {}, <<Text(Dish(c, i))>>), Text("\n")>>)
      [] kind = "indented" ->
           Elem("div", {}, <<Text("\n    "), Elem("span", {}, <<Text(Dish(c, i))>>),
                             Text("\n  ")>>)
      [] kind = "notext" ->
           Elem("div", {}, <<Elem("img", {}, <<>>)>>)
      [] kind = "spancell" ->
           Elem("span", {}, <<Text(Dish(c, i))>>)
      [] OTHER ->
           Elem("div", {}, <<Text(Dish(c, i))>>)

Row(kind, c, i) ==
    CASE kind = "heading" ->
           Elem("div", {"menu-heading"},
                <<NL, LabelCell(c, i), NL, DishCell(kind, c, i), NL>>)
      [] kind = "onecell" ->
           Elem("div", {"menu-row"}, <<NL, LabelCell(c, i), NL>>)
      [] OTHER ->
           Elem("div", {"menu-row"},
                <<NL, LabelCell(c, i), NL, DishCell(kind, c, i), NL,
                  PriceCell(c, i), NL>>)

RECURSIVE RowNodes(_, _, _)
RowNodes(kinds, c, i) ==
    IF i > Len(kinds) THEN <<>>
    ELSE <<Row(kinds[i], c, i), NL>> \o RowNodes(kinds, c, i + 1)

Container(kinds, c) == Elem("div", {"menu"}, <<NL>> \o RowNodes(kinds, c, 1))

\* a teaser box ahead of the menu: a heading and one plain menu row
TeaserKinds == <<"heading", "plain">>

MakePage(d) ==
    Elem("html", {},
         <<Elem("head", {}, <<>>),
           Elem("body", {},
                IF d.teaser
                THEN <<NL, Container(TeaserKinds, 1), NL, Container(d.rows, 2), NL>>
                ELSE <<NL, Container(d.rows, 1), NL>>)>>)

\* the row kinds of a full page: at most MaxVariantRows rows are not plain
RowSeqs(n) ==
    UNION { { [i \in 1..n |-> IF i \in S THEN g[i] ELSE "plain"] : g \in [S -> VariantKinds] }
            : S \in { T \in SUBSET (1..n) : Cardinality(T) <= MaxVariantRows } }

PageDescs ==
    { [teaser |-> t, rows |-> r] : t \in BOOLEAN, r \in RowSeqs(MaxRows) }
    \cup { [teaser |-> FALSE, rows |-> [i \in 1..n |-> "plain"]] : n \in 0..MaxRows }

-----------------------------------------------------------------------------
(* SpecExtract: scrape_lunch applied to every page of PageDescs.           *)

InitExtract ==
    /\ arg \in { [desc |-> d, html |-> MakePage(d)] : d \in PageDescs }
    /\ ret = [main |-> Panicked, lib |-> Panicked]
    /\ step = "input"
    /\ req = <<>>
    /\ sent = <<>>

Scrape ==
    /\ step = "input"
    /\ ret' = [main |-> scrape_lunch(arg.html), lib |-> lunch_rs_scrape_lunch(arg.html)]
    /\ step' = "scraped"
    /\ UNCHANGED <<arg, req, sent>>

NextExtract == Scrape

SpecExtract == InitExtract /\ [][NextExtract]_vars

-----------------------------------------------------------------------------
(* SpecRender: lunch_to_markdown applied to records of arbitrary fields.   *)

Fields == {"", "A", "B", "C", "  Gule rod\n"}

InitRender ==
    /\ arg \in [varm_ret : Fields, vegetar : Fields, salat : Fields]
    /\ ret = [main |-> "", lib |-> ""]
    /\ step = "input"
    /\ req = <<>>
    /\ sent = <<>>

Render ==
    /\ step = "input"
    /\ ret' = [main |-> lunch_to_markdown(arg), lib |-> lunch_rs_lunch_to_markdown(arg)]
    /\ step' = "rendered"
    /\ UNCHANGED <<arg, req, sent>>

NextRender == Render

SpecRender == InitRender /\ [][NextRender]_vars

-----------------------------------------------------------------------------
(* SpecResolve: identifier parsing and URL resolution, on every spelling   *)
(* of every building name in upper and lower case and on foreign strings.  *)

BadRequest == 400

\* get_lunch, from the path parameter to the upstream URL
parse_and_resolve(building) ==
    LET building_enum == from_str(building)
    IN  IF ~building_enum.ok
        THEN [ok |-> FALSE, status |-> BadRequest, url |-> ""]
        ELSE [ok |-> TRUE, status |-> 0, url |-> building_to_url(building_enum.building)]

to_ascii_uppercase(c) ==
    IF \E i \in 1..Len(LowerCase) : CharAt(LowerCase, i) = c
    THEN CharAt(UpperCase, CHOOSE i \in 1..Len(LowerCase) : CharAt(LowerCase, i) = c)
    ELSE c

\* name with the letters at the positions of `upper` in upper case, the rest in lower
RECURSIVE Recase(_, _, _)
Recase(name, upper, i) ==
    IF i > Len(name) THEN ""
    ELSE (IF i \in upper THEN to_ascii_uppercase(CharAt(name, i))
          ELSE to_ascii_lowercase(CharAt(name, i)))
         \o Recase(name, upper, i + 1)

CaseVariants(name) == { Recase(name, upper, 1) : upper \in SUBSET (1..Len(name)) }

ForeignIdents ==
    {"", "api", "lunch", "aastve", "aastvejj", "aastvej ", " aastvej", "aast-vej",
     "kloeverblomsten-kirkbi", "kantine-oestergade", "oestergade/", "kirkb1",
     "Kloeverblomsten", "kantine", "mid town"}

ResolveIdents == (UNION { CaseVariants(b) : b \in Buildings }) \cup ForeignIdents

InitResolve ==
    /\ arg \in ResolveIdents
    /\ ret = [ok |-> FALSE, status |-> 0, url |-> ""]
    /\ step = "input"
    /\ req = <<>>
    /\ sent = <<>>

Resolve ==
    /\ step = "input"
    /\ ret' = parse_and_resolve(arg)
    /\ step' = "resolved"
    /\ UNCHANGED <<arg, req, sent>>

NextResolve == Resolve

SpecResolve == InitResolve /\ [][NextResolve]_vars

-----------------------------------------------------------------------------
(* Spec: concurrent requests.  A handler runs from its start to the await  *)
(* of the upstream response, and from the arrival of that response to its  *)
(* end; the steps of different requests interleave freely.                 *)

NReq == 2

Requests == 1..NReq

Ok == 200
InternalServerError == 500

\* the path parameters the requests carry
RecognizedIdents == {"aastvej", "KIRKBI"}
UnrecognizedIdents == {"kantine-oestergade", ""}
Idents == RecognizedIdents \cup UnrecognizedIdents

\* the buildings lunch.rs's get_lunch is called with
LibBuildings == {"Aastvej", "KIRKBI"}

\* the bodies the upstream serves: the menu page, a page without a menu, and
\* a menu page whose vegetarian dish sits in an indented span
FixtureBody == [teaser |-> FALSE, rows |-> [i \in 1..MaxRows |-> "plain"]]
ErrorBody == [teaser |-> FALSE, rows |-> <<>>]
IndentedBody ==
    [teaser |-> FALSE,
     rows |-> [i \in 1..MaxRows |-> IF i = VegetarRow THEN "indented" ELSE "plain"]]

Bodies == {FixtureBody, ErrorBody, IndentedBody}

NoBody == [teaser |-> FALSE, rows |-> <<"none">>]

\* what the HTTP client hands back: an error, a success response with any of
\* the bodies, or a not-found response whose body is the menu page
NoUpstream == [kind |-> "none", status |-> 0, body |-> NoBody]
Upstreams ==
    {[kind |-> "err", status |-> 0, body |-> NoBody]}
    \cup { [kind |-> "ok", status |-> 200, body |-> b] : b \in Bodies }
    \cup {[kind |-> "ok", status |-> 404, body |-> FixtureBody]}

\* Html::parse_document of a served body
parse_document(body) == MakePage(body)

NoPayload == [text |-> "", response_type |-> ""]
NoResponse == [status |-> 0, payload |-> NoPayload]

IdleRequest ==
    [entry |-> "none", pc |-> "idle", building |-> "", upstream |-> NoUpstream,
     outcome |-> "none", response |-> NoResponse, markdown |-> ""]

\* json!(MattermostCommandResponse { text, response_type: InChannel })
MattermostCommandResponse(markdown) ==
    [text |-> markdown, response_type |-> rename_all("InChannel", "_", TRUE)]

Init ==
    /\ req = [r \in Requests |-> IdleRequest]
    /\ sent = [r \in Requests |-> <<>>]
    /\ arg = ""
    /\ ret = ""
    /\ step = "serving"

\* a plausible slip: the fetch is issued again after a failure
FetchFailedRetry(r) ==
    IF Len(sent[r]) < 2
    THEN /\ sent' = [sent EXCEPT ![r] = Append(@, @[1])]
         /\ UNCHANGED req
    ELSE /\ req' = [req EXCEPT ![r].pc = "done",
                               ![r].upstream = [kind |-> "err", status |-> 0, body |-> NoBody],
                               ![r].outcome = "response",
                               ![r].response = [status |-> InternalServerError,
                                                payload |-> NoPayload]]
         /\ UNCHANGED sent

\* main.rs get_lunch: the `?` on a failed recv_string ends the handler with the
\* client's error, which the server answers with the error's status and no body
FetchFailed(r) ==
    /\ req' = [req EXCEPT ![r].pc = "done",
                          ![r].upstream = [kind |-> "err", status |-> 0, body |-> NoBody],
                          ![r].outcome = "response",
                          ![r].response = [status |-> InternalServerError,
                                           payload |-> NoPayload]]
    /\ UNCHANGED sent

\* a plausible slip: the payload is built as an ephemeral response
Respond_ephemeral(r, up) ==
    LET lunch == scrape_lunch(parse_document(up.body))
    IN  /\ req' = [req EXCEPT ![r].pc = "done",
                              ![r].upstream = up,
                              ![r].outcome = "response",
                              ![r].response =
                                  [status |-> Ok,
                                   payload |-> [text |-> lunch_to_markdown(lunch.lunch),
                                                response_type |-> "ephemeral"]]]
        /\ UNCHANGED sent

\* main.rs get_lunch, from the received body to the response.  A panic of
\* scrape_lunch unwinds the handler's task: no response is written.
Respond(r, up) ==
    LET html == parse_document(up.body)
        lunch == scrape_lunch(html)
    IN  /\ IF lunch.outcome = "panicked"
           THEN req' = [req EXCEPT ![r].pc = "done",
                                   ![r].upstream = up,
                                   ![r].outcome = "panicked"]
           ELSE LET markdown == lunch_to_markdown(lunch.lunch)
                IN  req' = [req EXCEPT ![r].pc = "done",
                                       ![r].upstream = up,
                                       ![r].outcome = "response",
                                       ![r].markdown = markdown,
                                       ![r].response =
                                           [status |-> Ok,
                                            payload |-> MattermostCommandResponse(markdown)]]
        /\ UNCHANGED sent

\* main.rs get_lunch up to the await of surf::get(..).recv_string()
GetLunchStart(r, building) ==
    /\ req[r].pc = "idle"
    /\ LET resolved == parse_and_resolve(building)
       IN  IF ~resolved.ok
           THEN /\ req' = [req EXCEPT ![r].entry = "http",
                                      ![r].pc = "done",
                                      ![r].building = building,
                                      ![r].outcome = "response",
                                      ![r].response = [status |-> resolved.status,
                                                       payload |-> NoPayload]]
                /\ UNCHANGED sent
           ELSE /\ req' = [req EXCEPT ![r].entry = "http",
                                      ![r].pc = "awaiting",
                                      ![r].building = building]
                /\ sent' = [sent EXCEPT ![r] = Append(@, resolved.url)]
    /\ UNCHANGED <<arg, ret, step>>

\* main.rs get_lunch after the await: recv_string yields an error or the body
\* of the response, whatever its status
GetLunchResume(r, up) ==
    /\ req[r].entry = "http"
    /\ req[r].pc = "awaiting"
    /\ IF up.kind = "err" THEN FetchFailed(r) ELSE Respond(r, up)
    /\ UNCHANGED <<arg, ret, step>>

\* lunch.rs get_lunch up to the await of reqwest::get(url)
LibGetLunchStart(r, building) ==
    /\ req[r].pc = "idle"
    /\ req' = [req EXCEPT ![r].entry = "lib",
                          ![r].pc = "awaiting",
                          ![r].building = building]
    /\ sent' = [sent EXCEPT ![r] = Append(@, lunch_rs_url(building))]
    /\ UNCHANGED <<arg, ret, step>>

\* lunch.rs get_lunch after the awaits: `?` returns the client's error, a
\* response of any status is read, parsed, scraped and rendered
LibGetLunchResume(r, up) ==
    /\ req[r].entry = "lib"
    /\ req[r].pc = "awaiting"
    /\ IF up.kind = "err"
       THEN req' = [req EXCEPT ![r].pc = "done", ![r].upstream = up, ![r].outcome = "err"]
       ELSE LET html == parse_document(up.body)
                lunch == lunch_rs_scrape_lunch(html)
            IN  IF lunch.outcome = "panicked"
                THEN req' = [req EXCEPT ![r].pc = "done",
                                        ![r].upstream = up,
                                        ![r].outcome = "panicked"]
                ELSE req' = [req EXCEPT ![r].pc = "done",
                                        ![r].upstream = up,
                                        ![r].outcome = "ok",
                                        ![r].markdown = lunch_rs_lunch_to_markdown(lunch.lunch)]
    /\ UNCHANGED <<sent, arg, ret, step>>

Next ==
    \/ \E r \in Requests, building \in Idents : GetLunchStart(r, building)
    \/ \E r \in Requests, up \in Upstreams : GetLunchResume(r, up)
    \/ \E r \in Requests, building \in LibBuildings : LibGetLunchStart(r, building)
    \/ \E r \in Requests, up \in Upstreams : LibGetLunchResume(r, up)

Spec == Init /\ [][Next]_vars

-----------------------------------------------------------------------------
(* What a page description says about the three addressed nodes, read off  *)
(* the description and not off the document tree.                          *)

SelectorRows == {2, 4, 6}

\* the first row, in document order, that is the k-th child of its container
\* and a menu row: the teaser's second row for k = 2, else the menu's k-th row
FromTeaser(d, k) == d.teaser /\ k = 2

NodePresent(d, k) ==
    \/ FromTeaser(d, k)
    \/ k <= Len(d.rows) /\ d.rows[k] \notin NoCellKinds

NodeHasText(d, k) ==
    \/ FromTeaser(d, k)
    \/ k <= Len(d.rows) /\ d.rows[k] \in TextKinds

\* the first text run of the node, trimmed
ExpectedField(d, k) ==
    IF FromTeaser(d, k) THEN "dish 1.2"
    ELSE IF d.rows[k] = "indented" THEN ""
    ELSE "dish " \o (IF d.teaser THEN "2" ELSE "1") \o "." \o Digit(k)

WellFormed(d) == \A k \in SelectorRows : NodeHasText(d, k)

ExpectedLunch(d) ==
    [varm_ret |-> ExpectedField(d, 2),
     vegetar |-> ExpectedField(d, 4),
     salat |-> ExpectedField(d, 6)]

ExpectedMarkdown(l) ==
    "##### Varm ret\n  " \o l.varm_ret \o "\n##### Vegetar\n  " \o l.vegetar
    \o "\n##### Salat\n  " \o l.salat

-----------------------------------------------------------------------------
(* Claims.                                                                 *)

\* C1: scrape_lunch on a page that lacks one of the three addressed nodes ends
\* in an ExtractionError returned as an error value, in both copies, and in no
\* other outcome.
C1_MissingNodeIsExtractionError ==
    (step = "scraped" /\ \E k \in SelectorRows : ~NodePresent(arg.desc, k))
        => (ret.main.outcome = "error" /\ ret.lib.outcome = "error")

\* C2: a request whose upstream response has a non-success status never ends
\* in a success document: no 200 response of the handler, no Ok(markdown) of
\* lunch.rs's get_lunch.
C2_NonSuccessStatusNeverSucceeds ==
    \A r \in Requests :
        (req[r].pc = "done" /\ req[r].upstream.kind = "ok"
         /\ req[r].upstream.status \notin 200..299)
            => /\ req[r].outcome # "ok"
               /\ ~(req[r].outcome = "response" /\ req[r].response.status = 200)

\* C3: every request of the handler that passed identifier parsing and has
\* ended was answered, either with the success payload or with a server error
\* that carries no body.
C3_ParsedRequestEndsInPayloadOrServerError ==
    \A r \in Requests :
        (req[r].entry = "http" /\ req[r].pc = "done"
         /\ req[r].building \in RecognizedIdents)
            => /\ req[r].outcome = "response"
               /\ \/ /\ req[r].response.status = 200
                     /\ req[r].response.payload # NoPayload
                  \/ req[r].response = [status |-> 500, payload |-> NoPayload]

\* C4: a record scrape_lunch returns has all three fields populated: no field
\* is the empty string.
C4_RecordFieldsPopulated ==
    (step = "scraped" /\ ret.main.outcome = "returned")
        => /\ ret.main.lunch.varm_ret # ""
           /\ ret.main.lunch.vegetar # ""
           /\ ret.main.lunch.salat # ""

KnownUrls ==
    {"https://lego.isscatering.dk/aastvej",
     "https://lego.isscatering.dk/multihuset",
     "https://lego.isscatering.dk/havremarken",
     "https://lego.isscatering.dk/kloeverblomsten-kirkbi",
     "https://lego.isscatering.dk/midtown",
     "https://lego.isscatering.dk/kornmarken",
     "https://lego.isscatering.dk/kantine-oestergade"}

\* C5: a request of the handler with an unrecognized identifier is answered
\* 400 and never issues a GET; a request that has issued a GET carries a
\* recognized identifier and the GET goes to a building's URL.
C5_UnrecognizedRejectedBeforeFetch ==
    \A r \in Requests :
        /\ (req[r].entry = "http" /\ req[r].building \in UnrecognizedIdents)
              => /\ req[r].pc = "done"
                 /\ req[r].outcome = "response"
                 /\ req[r].response = [status |-> 400, payload |-> NoPayload]
                 /\ sent[r] = <<>>
        /\ (req[r].entry = "http" /\ sent[r] # <<>>)
              => /\ req[r].building \in RecognizedIdents
                 /\ \A i \in 1..Len(sent[r]) : sent[r][i] \in KnownUrls

C5_Witness ==
    \E r1, r2 \in Requests :
        /\ req[r1].entry = "http" /\ req[r1].building = "kantine-oestergade"
        /\ req[r1].response.status = 400 /\ sent[r1] = <<>>
        /\ req[r2].entry = "http" /\ req[r2].building = "KIRKBI"
        /\ sent[r2] = <<"https://lego.isscatering.dk/kloeverblomsten-kirkbi">>

\* C6: for every record, empty fields included, both copies of
\* lunch_to_markdown return the three headings with the fields substituted
\* verbatim and no newline after the last field.
C6_RenderTemplate ==
    step = "rendered"
        => /\ ret.main = ExpectedMarkdown(arg)
           /\ ret.lib = ExpectedMarkdown(arg)
           /\ (arg = [varm_ret |-> "A", vegetar |-> "B", salat |-> "C"]
                  => ret.main = "##### Varm ret\n  A\n##### Vegetar\n  B\n##### Salat\n  C")

C6_Witness ==
    /\ step = "rendered"
    /\ arg = [varm_ret |-> "", vegetar |-> "  Gule rod\n", salat |-> ""]
    /\ ret.main = "##### Varm ret\n  \n##### Vegetar\n    Gule rod\n\n##### Salat\n  "

\* C7: on a page whose three addressed nodes all hold text, both copies of
\* scrape_lunch return the record of the trimmed first text runs of the first
\* matching cells: no other row, cell or later text run contributes.
C7_ExtractTrimmedFirstRuns ==
    (step = "scraped" /\ WellFormed(arg.desc))
        => /\ ret.main = Returned(ExpectedLunch(arg.desc))
           /\ ret.lib = Returned(ExpectedLunch(arg.desc))

C7_Witness ==
    /\ step = "scraped"
    /\ arg.desc.teaser
    /\ arg.desc.rows[2] = "heading"
    /\ arg.desc.rows[4] = "tworuns"
    /\ ret.main.outcome = "returned"
    /\ ret.main.lunch = [varm_ret |-> "dish 1.2", vegetar |-> "dish 2.4", salat |-> "dish 2.6"]

\* the URL a building's name resolves to
ExpectedUrl(b) ==
    CASE b = "Aastvej" -> "https://lego.isscatering.dk/aastvej"
      [] b = "Multihuset" -> "https://lego.isscatering.dk/multihuset"
      [] b = "Havremarken" -> "https://lego.isscatering.dk/havremarken"
      [] b = "KIRKBI" -> "https://lego.isscatering.dk/kloeverblomsten-kirkbi"
      [] b = "Midtown" -> "https://lego.isscatering.dk/midtown"
      [] b = "Kornmarken" -> "https://lego.isscatering.dk/kornmarken"
      [] b = "Oestergade" -> "https://lego.isscatering.dk/kantine-oestergade"

\* the same letter, in either case
SameLetter(x, y) ==
    \/ x = y
    \/ \E i \in 1..Len(UpperCase) :
          {x, y} = {CharAt(UpperCase, i), CharAt(LowerCase, i)}

DiffersOnlyInCase(a, b) ==
    /\ Len(a) = Len(b)
    /\ \A i \in 1..Len(a) : SameLetter(CharAt(a, i), CharAt(b, i))

\* C8: every spelling of a building's name in upper and lower case letters is
\* accepted and resolves to that building's URL, the fixed host followed by
\* the building's path segment.
C8_CaseInsensitiveResolve ==
    step = "resolved"
        => \A b \in Buildings :
              DiffersOnlyInCase(arg, b) => (ret.ok /\ ret.url = ExpectedUrl(b))

C8_Witness ==
    /\ step = "resolved"
    /\ arg = "AASTVEj"
    /\ ret.ok
    /\ ret.url = "https://lego.isscatering.dk/aastvej"

\* C9: a request of the handler for a supported building whose upstream
\* answered 200 with a well-formed page is answered 200 with the two-field
\* payload: response_type "in_channel" and the rendered menu of that body.
C9_SuccessPayload ==
    \A r \in Requests :
        (req[r].entry = "http" /\ req[r].pc = "done" /\ req[r].upstream.kind = "ok"
         /\ req[r].upstream.status = 200 /\ WellFormed(req[r].upstream.body))
            => /\ req[r].building \in RecognizedIdents
               /\ req[r].outcome = "response"
               /\ req[r].response.status = 200
               /\ DOMAIN req[r].response.payload = {"text", "response_type"}
               /\ req[r].response.payload.response_type = "in_channel"
               /\ req[r].response.payload.text
                      = ExpectedMarkdown(ExpectedLunch(req[r].upstream.body))
               /\ (req[r].upstream.body = FixtureBody
                      => req[r].response.payload.text
                             = "##### Varm ret\n  dish 1.2\n##### Vegetar\n  dish 1.4\n##### Salat\n  dish 1.6")

C9_Witness ==
    \E r \in Requests :
        /\ req[r].entry = "http" /\ req[r].pc = "done"
        /\ req[r].building = "aastvej"
        /\ req[r].upstream = [kind |-> "ok", status |-> 200, body |-> FixtureBody]
        /\ req[r].response.status = 200
        /\ req[r].response.payload.response_type = "in_channel"

\* C10: a request issues at most one GET; the step in which its fetch fails
\* ends it in failure with no further GET, and a finished request never
\* changes again; every step changes the state of one request only.
C10_NoRetry ==
    /\ [](\A r \in Requests : Len(sent[r]) <= 1)
    /\ [][\A r \in Requests :
            /\ (req[r].pc = "awaiting" /\ req'[r].upstream.kind = "err")
                  => /\ req'[r].pc = "done"
                     /\ sent'[r] = sent[r]
                     /\ \/ req'[r].outcome = "err"
                        \/ /\ req'[r].outcome = "response"
                           /\ req'[r].response = [status |-> 500, payload |-> NoPayload]
            /\ req[r].pc = "done" => (req'[r] = req[r] /\ sent'[r] = sent[r])
            /\ \A q \in Requests \ {r} :
                  (req'[r] # req[r] \/ sent'[r] # sent[r])
                      => (req'[q] = req[q] /\ sent'[q] = sent[q])]_vars

C10_Witness ==
    \E r1, r2 \in Requests :
        /\ req[r1].pc = "done" /\ req[r1].upstream.kind = "err"
        /\ req[r1].response.status = 500 /\ Len(sent[r1]) = 1
        /\ req[r2].pc = "awaiting" /\ Len(sent[r2]) = 1

====
